---- MODULE Spec2Model ----
(***************************************************************************)
(* Model of jina/types/arrays/traversable.py: the TraversableSequence      *)
(* mixin (traverse, _traverse, traverse_flat_per_path, traverse_flat,      *)
(* batch) and the module-level path validator.                             *)
(*                                                                         *)
(* A call of a generator function creates a generator object and runs no   *)
(* line of its body; each request of the consumer (next) runs the body up  *)
(* to the next yield, to its end (StopIteration) or to a raise.            *)
(***************************************************************************)
EXTENDS Integers, Sequences, FiniteSets, TLC

VARIABLES tree, op, args, pc, err, out, trails, gen, ret

vars == <<tree, op, args, pc, err, out, trails, gen, ret>>

(***************************************************************************)
(* Bounds.                                                                 *)
(***************************************************************************)
NumDocs == 5          \* documents are 1..NumDocs; flat sources have 0..NumDocs elements
MaxPaths == 2         \* longest traversal-path specification
MaxBatchSize == 3     \* largest batch_size

Doc == 1..NumDocs

(***************************************************************************)
(* Sequence helpers.                                                       *)
(***************************************************************************)
Min(a, b) == IF a < b THEN a ELSE b

Last(s) == s[Len(s)]

Front(s) == SubSeq(s, 1, Len(s) - 1)

\* Slice with the upper bound included
SliceOverlap(s, lo, hi) ==
    IF lo >= Min(hi + 1, Len(s)) THEN <<>> ELSE SubSeq(s, lo + 1, Min(hi + 1, Len(s)))

\* Python's s[lo:hi] for 0 <= lo <= hi: the bounds are clamped to len(s).
Slice(s, lo, hi) ==
    IF lo >= Min(hi, Len(s)) THEN <<>> ELSE SubSeq(s, lo + 1, Min(hi, Len(s)))

RECURSIVE Concat(_)
Concat(ss) == IF ss = <<>> THEN <<>> ELSE Head(ss) \o Concat(Tail(ss))

Range(s) == {s[k] : k \in 1..Len(s)}

\* all sequences over S of length lo..hi
SeqsOf(S, lo, hi) == UNION {[1..n -> S] : n \in lo..hi}

Iota(n) == [k \in 1..n |-> k]

(***************************************************************************)
(* Documents and collections.  A collection is an object: ref is its       *)
(* identity, items the documents it holds, in order.                       *)
(***************************************************************************)
SelfRef == <<"self", 0>>
ChunksRef(d) == <<"chunks", d>>
MatchesRef(d) == <<"matches", d>>
NewRef(n) == <<"new", n>>

Coll(ref, items) == [ref |-> ref, items |-> items]

NoColl == Coll(<<"none", 0>>, <<>>)

\* The value of every named attribute of document d: absent/None, present but
\* falsy (an empty array, an empty string), or present and truthy.
AttrValue(d) == CASE d % 3 = 1 -> "value" [] d % 3 = 2 -> "empty" [] OTHER -> "None"

MkTree(root, ch, ma) == [root |-> root, chunks |-> ch, matches |-> ma]

NoEdges == [d \in Doc |-> <<>>]

\* A (1) has children [B, C] (2, 3); B has children [D] (4); C has none.
TreeABCD ==
    MkTree(<<1>>, [d \in Doc |-> CASE d = 1 -> <<2, 3>> [] d = 2 -> <<4>> [] OTHER -> <<>>],
           NoEdges)

\* one document with 2 children and 3 matches; document 3 is shared.
TreeCM ==
    MkTree(<<1>>, [d \in Doc |-> IF d = 1 THEN <<2, 3>> ELSE <<>>],
           [d \in Doc |-> IF d = 1 THEN <<3, 4, 2>> ELSE <<>>])

\* the matches relation is cyclic (1 -> 2 -> 1) and 2 is also a child of 1.
TreeCyclic ==
    MkTree(<<1, 2>>, [d \in Doc |-> IF d = 1 THEN <<2>> ELSE <<>>],
           [d \in Doc |-> CASE d = 1 -> <<2>> [] d = 2 -> <<1>> [] OTHER -> <<>>])

\* n documents without children or matches (n = 0: the empty collection)
TreeFlat(n) == MkTree(Iota(n), NoEdges, NoEdges)

Trees == {TreeABCD, TreeCM, TreeCyclic} \cup {TreeFlat(n) : n \in 0..NumDocs}

Self == Coll(SelfRef, tree.root)
Chunks(d) == Coll(ChunksRef(d), tree.chunks[d])
Matches(d) == Coll(MatchesRef(d), tree.matches[d])

(***************************************************************************)
(* Traversal-path specifications.  A path is the sequence of its           *)
(* characters.  A specification is None, a bare string or a list; the      *)
(* elements of a list are strings or not (isStr).  Iterating a bare string *)
(* gives its one-character strings.                                        *)
(***************************************************************************)
StrElem(p) == [isStr |-> TRUE, chars |-> p]
NonStrElem == [isStr |-> FALSE, chars |-> <<>>]

TpNone == [kind |-> "None", elems |-> <<>>]
TpStr(p) == [kind |-> "str", elems |-> [k \in 1..Len(p) |-> StrElem(<<p[k]>>)]]
TpList(es) == [kind |-> "list", elems |-> es]
TpOf(ps) == TpList([k \in 1..Len(ps) |-> StrElem(ps[k])])

PathPool ==
    { <<>>, <<"r">>, <<"c">>, <<"m">>, <<"x">>,
      <<"c", "c">>, <<"r", "r">>, <<"c", "x">>, <<"m", "m">>, <<"c", "m">>,
      <<"c", "c", "x">> }

ShortPaths == { <<"r">>, <<"c">>, <<"m">>, <<"x">>, <<"c", "c">>, <<"c", "x">> }

WellShaped ==
    {TpOf(<<p>>) : p \in PathPool} \cup {TpOf(ps) : ps \in SeqsOf(ShortPaths, 2, MaxPaths)}

Malformed ==
    { TpList(<<>>), TpStr(<<"r">>), TpStr(<<>>), TpList(<<NonStrElem>>),
      TpList(<<StrElem(<<"r">>), NonStrElem>>) }

Filters == {"None", "odd"}

\* filter_fn(d) for the one filter function of the model
FilterFn(d) == d % 2 = 1

(***************************************************************************)
(* _check_traversal_path_type: TRUE when the check passes, FALSE when it   *)
(* raises TypeError.                                                       *)
(***************************************************************************)
\* Python truth value of a specification: None and empty sequences are falsy
Truthy(tp) == tp.kind # "None" /\ Len(tp.elems) > 0

\* CheckTraversalPathType without the test of the elements
CheckAcceptsNonStr(tp) ==
    /\ Truthy(tp)
    /\ tp.kind = "list"

\* CheckTraversalPathType also rejecting path characters other than r, c, m
CheckAlsoChars(tp) ==
    /\ Truthy(tp)
    /\ tp.kind = "list"
    /\ \A k \in 1..Len(tp.elems) :
          /\ tp.elems[k].isStr
          /\ \A j \in 1..Len(tp.elems[k].chars) : tp.elems[k].chars[j] \in {"r", "c", "m"}

\* CheckTraversalPathType without the test against a bare string
CheckAcceptsBareString(tp) ==
    /\ Truthy(tp)
    /\ \A k \in 1..Len(tp.elems) : tp.elems[k].isStr

CheckTraversalPathType(tp) ==
    /\ Truthy(tp)
    /\ tp.kind # "str"
    /\ tp.kind = "list"
    /\ \A k \in 1..Len(tp.elems) : tp.elems[k].isStr

(***************************************************************************)
(* Errors, generator state.                                                *)
(***************************************************************************)
NoErr == [type |-> "none", char |-> ""]
TypeError == [type |-> "TypeError", char |-> ""]
ValueError(c) == [type |-> "ValueError", char |-> c]

\* The local variables of a suspended generator.  traverse: stack (the frames of
\* the nested _traverse generators, innermost last) and pi (paths started);
\* batch: docs, N, ix, n_batches, i, batch (_batch) and pos (documents of docs
\* consumed by the legacy loop).  fresh counts the collections constructed.
GenInit ==
    [stack |-> <<>>, pi |-> 0, fresh |-> 0, docs |-> NoColl, N |-> 0, ix |-> <<>>,
     n_batches |-> 0, i |-> 0, batch |-> <<>>, pos |-> 0]

\* A frame of _traverse(docs, path): i counts the iterations of its loop that were
\* started (for 'r' and for an exhausted path: whether its one step was taken).
Frame(docs, path) == [docs |-> docs, path |-> path, i |-> 0]

Result(g, res, val, e) == [g |-> g, res |-> res, val |-> val, err |-> e]

(***************************************************************************)
(* _traverse, lines 69-94.                                                 *)
(***************************************************************************)
\* IsLoc without the root symbol
IsLocNoRoot(loc) == loc \in {"m", "c"}

IsLoc(loc) == loc \in {"r", "m", "c"}

\* Descend with the two edge kinds exchanged
DescendSwapped(docs, loc) ==
    CASE loc = "r" -> <<docs>>
      [] loc = "m" -> [k \in 1..Len(docs.items) |-> Chunks(docs.items[k])]
      [] loc = "c" -> [k \in 1..Len(docs.items) |-> Matches(docs.items[k])]

\* Descend visiting the documents last to first
DescendReversed(docs, loc) ==
    CASE loc = "r" -> <<docs>>
      [] loc = "m" -> [k \in 1..Len(docs.items) |->
                         Matches(docs.items[Len(docs.items) + 1 - k])]
      [] loc = "c" -> [k \in 1..Len(docs.items) |->
                         Chunks(docs.items[Len(docs.items) + 1 - k])]

\* the collections _traverse recurses on for the path symbol loc, in order
Descend(docs, loc) ==
    CASE loc = "r" -> <<docs>>
      [] loc = "m" -> [k \in 1..Len(docs.items) |-> Matches(docs.items[k])]
      [] loc = "c" -> [k \in 1..Len(docs.items) |-> Chunks(docs.items[k])]

\* Leaf ignoring the filter
LeafUnfiltered(docs, filter_fn, fresh) == docs

\* Leaf filtering the reached collection in place
LeafFilteredInPlace(docs, filter_fn, fresh) ==
    IF filter_fn = "None" THEN docs
    ELSE Coll(docs.ref, SelectSeq(docs.items, FilterFn))

\* what an exhausted path yields: docs itself, or a new filtered collection
Leaf(docs, filter_fn, fresh) ==
    IF filter_fn = "None" THEN docs
    ELSE Coll(NewRef(fresh), SelectSeq(docs.items, FilterFn))

\* RaiseInvalid with the error swallowed: the generator just ends
RaiseInvalidSwallowed(a, g, loc) ==
    Result([g EXCEPT !.stack = <<>>, !.pi = Len(a.tp.elems)], "stop", NoColl, NoErr)

\* lines 85-88: a path symbol that is none of r, m, c ends the generator with
\* the invalid-path error naming it
RaiseInvalid(a, g, loc) ==
    Result([g EXCEPT !.stack = <<>>, !.pi = Len(a.tp.elems)], "raise", NoColl,
           ValueError(loc))

\* traverse's body from where it is suspended to its next yield, end or raise
RECURSIVE RunTraverse(_, _)
RunTraverse(a, g) ==
    IF g.stack = <<>> THEN
        IF g.pi >= Len(a.tp.elems) THEN Result(g, "stop", NoColl, NoErr)
        ELSE RunTraverse(a, [g EXCEPT !.pi = @ + 1,
                                      !.stack = <<Frame(Self, a.tp.elems[g.pi + 1].chars)>>])
    ELSE
        LET f == Last(g.stack)
            rest == Front(g.stack)
            stepped == Append(rest, [f EXCEPT !.i = @ + 1])
            pop == [g EXCEPT !.stack = rest]
        IN  IF f.path # <<>> THEN
                IF IsLoc(Head(f.path)) THEN
                    LET subs == Descend(f.docs, Head(f.path)) IN
                    IF f.i < Len(subs)
                    THEN RunTraverse(a, [g EXCEPT !.stack =
                                 Append(stepped, Frame(subs[f.i + 1], Tail(f.path)))])
                    ELSE RunTraverse(a, pop)
                ELSE RaiseInvalid(a, g, Head(f.path))
            ELSE IF f.i = 0 THEN
                Result([g EXCEPT !.stack = stepped,
                                 !.fresh = IF a.filter_fn = "None" THEN @ ELSE @ + 1],
                       "yield", Leaf(f.docs, a.filter_fn, g.fresh), NoErr)
            ELSE RunTraverse(a, pop)

\* the position of a suspended traverse: the path and, per frame, the iteration
TrailOf(g) == <<g.pi>> \o [k \in 1..Len(g.stack) |-> g.stack[k].i]

\* a generator consumed to its end: everything it yields, and how it ends
RECURSIVE Drain(_, _, _)
Drain(a, g, acc) ==
    LET r == RunTraverse(a, g) IN
    IF r.res = "yield" THEN Drain(a, r.g, Append(acc, r.val))
    ELSE [out |-> acc, res |-> r.res, err |-> r.err, g |-> r.g]

(***************************************************************************)
(* _flatten is abstract in TraversableSequence (lines 217-220); the        *)
(* concrete collection type supplies it: one new flat collection, the      *)
(* documents in encounter order, duplicates retained.                      *)
(***************************************************************************)
Flatten(colls, fresh) ==
    Coll(NewRef(fresh), Concat([k \in 1..Len(colls) |-> colls[k].items]))

\* DrainPath traversing every path of the specification
DrainPathAll(a, p, fresh) == Drain(a, [GenInit EXCEPT !.fresh = fresh], <<>>)

\* self._traverse(self, p, filter_fn) consumed to its end (by _flatten)
DrainPath(a, p, fresh) ==
    Drain(a, [GenInit EXCEPT !.pi = Len(a.tp.elems), !.stack = <<Frame(Self, p)>>,
                             !.fresh = fresh], <<>>)

\* IsRootOnly without the test of the number of paths
IsRootOnlyFirstPath(tp, filter_fn) ==
    /\ tp.elems[1] = StrElem(<<"r">>)
    /\ filter_fn = "None"

\* IsRootOnly without the test of the filter
IsRootOnlyAnyFilter(tp, filter_fn) ==
    /\ Len(tp.elems) = 1
    /\ tp.elems[1] = StrElem(<<"r">>)

\* the test of traverse_flat's shortcut, lines 133-137
IsRootOnly(tp, filter_fn) ==
    /\ Len(tp.elems) = 1
    /\ tp.elems[1] = StrElem(<<"r">>)
    /\ filter_fn = "None"

\* traverse_flat, lines 132-141: a plain function, it returns or raises
TraverseFlat(a, fresh) ==
    IF ~CheckTraversalPathType(a.tp)
    THEN [res |-> "raise", val |-> NoColl, err |-> TypeError, fresh |-> fresh]
    ELSE IF IsRootOnly(a.tp, a.filter_fn)
    THEN [res |-> "return", val |-> Self, err |-> NoErr, fresh |-> fresh]
    ELSE LET r == Drain(a, [GenInit EXCEPT !.fresh = fresh], <<>>) IN
         IF r.res = "raise"
         THEN [res |-> "raise", val |-> NoColl, err |-> r.err, fresh |-> r.g.fresh]
         ELSE [res |-> "return", val |-> Flatten(r.out, r.g.fresh), err |-> NoErr,
               fresh |-> r.g.fresh + 1]

(***************************************************************************)
(* batch, lines 163-215.                                                   *)
(***************************************************************************)
\* CeilDiv rounding down
FloorDiv(n, k) == n \div k

CeilDiv(n, k) == (n + k - 1) \div k

\* np.arange(N), and the orders np.random.shuffle can leave it in
Arange(n) == [k \in 1..n |-> k - 1]

Perms(n) == {f \in [1..n -> 0..(n - 1)] : \A j, k \in 1..n : f[j] = f[k] => j = k}

\* Passes testing every attribute for truthiness
PassesTruthy(d, require_attr) ==
    IF require_attr # "None" THEN AttrValue(d) = "value" ELSE TRUE

\* the test of the legacy loop, lines 201-208
Passes(d, require_attr) ==
    IF require_attr \in {"embedding", "blob"} THEN AttrValue(d) # "None"
    ELSE IF require_attr # "None" THEN AttrValue(d) = "value"
    ELSE TRUE

\* lines 179-180: the length the batches are counted from
BatchN(docs) == Len(Self.items)

\* lines 166-185: docs, N, n_batches and ix; ix is the order the random source
\* leaves the index array in
BatchDocs(a, ix) ==
    IF Truthy(a.tp) /\ ~CheckTraversalPathType(a.tp)
    THEN [res |-> "raise", err |-> TypeError, g |-> GenInit]
    ELSE LET d == IF Truthy(a.tp) THEN TraverseFlat([a EXCEPT !.filter_fn = "None"], 0)
                  ELSE [res |-> "return", val |-> Self, err |-> NoErr, fresh |-> 0]
         IN  IF d.res = "raise" THEN [res |-> "raise", err |-> d.err, g |-> GenInit]
             ELSE IF a.require_attr = "None"
             THEN [res |-> "ok", err |-> NoErr,
                   g |-> [GenInit EXCEPT !.docs = d.val, !.fresh = d.fresh,
                                         !.N = BatchN(d.val), !.ix = ix,
                                         !.n_batches = CeilDiv(BatchN(d.val), a.batch_size)]]
             ELSE [res |-> "ok", err |-> NoErr,
                   g |-> [GenInit EXCEPT !.docs = d.val, !.fresh = d.fresh]]

\* BatchStart validating the path specification before the batch size
BatchStartPathFirst(a, ix) ==
    IF Truthy(a.tp) /\ ~CheckTraversalPathType(a.tp)
    THEN [res |-> "raise", err |-> TypeError, g |-> GenInit]
    ELSE IF ~(a.batch_size > 0)
    THEN [res |-> "raise", err |-> ValueError(""), g |-> GenInit]
    ELSE BatchDocs(a, ix)

\* lines 163-185: from the first next() to the loop
BatchStart(a, ix) ==
    IF ~(a.batch_size > 0) THEN [res |-> "raise", err |-> ValueError(""), g |-> GenInit]
    ELSE BatchDocs(a, ix)

\* lines 187-188: one turn of the default loop
RunDefault(a, g) ==
    IF g.i < g.n_batches
    THEN Result([g EXCEPT !.i = @ + 1, !.fresh = @ + 1], "yield",
                Coll(NewRef(g.fresh),
                     Slice(g.docs.items, g.i * a.batch_size, (g.i + 1) * a.batch_size)),
                NoErr)
    ELSE Result(g, "stop", NoColl, NoErr)

\* IsFull one element late
IsFullLate(batch, batch_size) == Len(batch) > batch_size

\* line 210: the running batch is yielded
IsFull(batch, batch_size) == Len(batch) = batch_size

\* lines 214-215: the remainder is yielded
HasRemainder(batch) == batch # <<>>

\* lines 198-215: the legacy loop to its next yield or its end.  After a yield the
\* generator resumes at line 212 with a new empty _batch.
RECURSIVE RunLegacy(_, _)
RunLegacy(a, g) ==
    IF g.pos < Len(g.docs.items) THEN
        LET d == g.docs.items[g.pos + 1]
            b == IF Passes(d, a.require_attr) THEN Append(g.batch, d) ELSE g.batch
        IN  IF IsFull(b, a.batch_size)
            THEN Result([g EXCEPT !.pos = @ + 1, !.batch = <<>>, !.fresh = @ + 1],
                        "yield", Coll(NewRef(g.fresh), b), NoErr)
            ELSE RunLegacy(a, [g EXCEPT !.pos = @ + 1, !.batch = b])
    ELSE IF HasRemainder(g.batch)
    THEN Result([g EXCEPT !.batch = <<>>, !.fresh = @ + 1],
                "yield", Coll(NewRef(g.fresh), g.batch), NoErr)
    ELSE Result(g, "stop", NoColl, NoErr)

RunBatch(a, g) == IF a.require_attr = "None" THEN RunDefault(a, g) ELSE RunLegacy(a, g)

\* GeneratorState never signalling exhaustion
GeneratorStateNeverDone(res) == IF res = "raise" THEN "raised" ELSE "suspended"

\* the state of a generator after a resumption that ended in res
GeneratorState(res) ==
    CASE res = "yield" -> "suspended"
      [] res = "stop" -> "done"
      [] OTHER -> "raised"

(***************************************************************************)
(* The state: the source tree, the operation called and its arguments, the *)
(* state of the call (idle: nothing called; created: a generator that has  *)
(* not started; suspended: at a yield; done: exhausted; returned: a plain  *)
(* function returned; raised), the error raised, what the consumer         *)
(* received (out, and for traverse the position of each yield), the        *)
(* generator's locals and the value a plain function returned.             *)
(***************************************************************************)
Args(tp, filter_fn, batch_size, require_attr, shuffle) ==
    [tp |-> tp, filter_fn |-> filter_fn, batch_size |-> batch_size,
     require_attr |-> require_attr, shuffle |-> shuffle]

NoArgs == Args(TpNone, "None", 0, "None", FALSE)

Init ==
    /\ tree \in Trees
    /\ op = "none"
    /\ args = NoArgs
    /\ pc = "idle"
    /\ err = NoErr
    /\ out = <<>>
    /\ trails = <<>>
    /\ gen = GenInit
    /\ ret = NoColl

\* x.traverse(traversal_paths, filter_fn): a generator function, so the call runs
\* nothing of lines 58-61
Call_traverse ==
    /\ pc = "idle"
    /\ \E tp \in WellShaped \cup Malformed, fn \in Filters :
         args' = Args(tp, fn, 0, "None", FALSE)
    /\ op' = "traverse"
    /\ pc' = "created"
    /\ UNCHANGED <<tree, err, out, trails, gen, ret>>

\* next() on the traverse generator
Next_traverse ==
    /\ op = "traverse"
    /\ pc \in {"created", "suspended"}
    /\ IF pc = "created" /\ ~CheckTraversalPathType(args.tp)
       THEN /\ pc' = "raised"
            /\ err' = TypeError
            /\ UNCHANGED <<out, trails, gen>>
       ELSE LET r == RunTraverse(args, gen) IN
            /\ gen' = r.g
            /\ err' = r.err
            /\ pc' = GeneratorState(r.res)
            /\ out' = IF r.res = "yield" THEN Append(out, r.val) ELSE out
            /\ trails' = IF r.res = "yield" THEN Append(trails, TrailOf(r.g)) ELSE trails
    /\ UNCHANGED <<tree, op, args, ret>>

\* x.traverse_flat_per_path(traversal_paths, filter_fn): a generator function
Call_traverse_flat_per_path ==
    /\ pc = "idle"
    /\ \E tp \in WellShaped \cup Malformed, fn \in Filters :
         args' = Args(tp, fn, 0, "None", FALSE)
    /\ op' = "traverse_flat_per_path"
    /\ pc' = "created"
    /\ UNCHANGED <<tree, err, out, trails, gen, ret>>

\* next() on the traverse_flat_per_path generator, lines 109-112
Next_traverse_flat_per_path ==
    /\ op = "traverse_flat_per_path"
    /\ pc \in {"created", "suspended"}
    /\ IF pc = "created" /\ ~CheckTraversalPathType(args.tp)
       THEN /\ pc' = "raised"
            /\ err' = TypeError
            /\ UNCHANGED <<out, gen>>
       ELSE IF gen.pi >= Len(args.tp.elems)
       THEN /\ pc' = "done"
            /\ UNCHANGED <<err, out, gen>>
       ELSE LET r == DrainPath(args, args.tp.elems[gen.pi + 1].chars, gen.fresh) IN
            IF r.res = "raise"
            THEN /\ pc' = "raised"
                 /\ err' = r.err
                 /\ gen' = [gen EXCEPT !.pi = Len(args.tp.elems), !.fresh = r.g.fresh]
                 /\ out' = out
            ELSE /\ pc' = "suspended"
                 /\ err' = NoErr
                 /\ gen' = [gen EXCEPT !.pi = @ + 1, !.fresh = r.g.fresh + 1]
                 /\ out' = Append(out, Flatten(r.out, r.g.fresh))
    /\ UNCHANGED <<tree, op, args, trails, ret>>

\* x.traverse_flat(traversal_paths, filter_fn): runs to its return or raise
Call_traverse_flat ==
    /\ pc = "idle"
    /\ \E tp \in WellShaped \cup Malformed, fn \in Filters :
         LET a == Args(tp, fn, 0, "None", FALSE)
             r == TraverseFlat(a, 0)
         IN  /\ args' = a
             /\ pc' = IF r.res = "return" THEN "returned" ELSE "raised"
             /\ err' = r.err
             /\ ret' = r.val
             /\ gen' = [gen EXCEPT !.fresh = r.fresh]
    /\ op' = "traverse_flat"
    /\ UNCHANGED <<tree, out, trails>>

BatchSpecs ==
    { TpNone, TpList(<<>>), TpStr(<<"r">>), TpList(<<NonStrElem>>) }
        \cup {TpOf(<<p>>) : p \in {<<"r">>, <<"c">>, <<"x">>, <<"c", "c">>}}

RequireAttrs == {"None", "embedding", "blob", "text"}

\* x.batch(batch_size, traversal_paths, require_attr, shuffle): a generator function
Call_batch ==
    /\ pc = "idle"
    /\ \E bs \in (-1)..MaxBatchSize, tp \in BatchSpecs, ra \in RequireAttrs,
          sh \in BOOLEAN :
         args' = Args(tp, "None", bs, ra, sh)
    /\ op' = "batch"
    /\ pc' = "created"
    /\ UNCHANGED <<tree, err, out, trails, gen, ret>>

\* the first next() on the batch generator: lines 163-185, then the loop
Start_batch ==
    /\ op = "batch"
    /\ pc = "created"
    /\ \E ix \in (IF args.shuffle /\ args.require_attr = "None" /\ args.batch_size > 0
                  THEN Perms(Len(Self.items)) ELSE {Arange(Len(Self.items))}) :
         LET s == BatchStart(args, ix) IN
         IF s.res = "raise"
         THEN /\ pc' = "raised"
              /\ err' = s.err
              /\ UNCHANGED <<out, gen>>
         ELSE LET r == RunBatch(args, s.g) IN
              /\ gen' = r.g
              /\ err' = NoErr
              /\ pc' = IF r.res = "yield" THEN "suspended" ELSE "done"
              /\ out' = IF r.res = "yield" THEN Append(out, r.val) ELSE out
    /\ UNCHANGED <<tree, op, args, trails, ret>>

\* a later next() on the batch generator
Next_batch ==
    /\ op = "batch"
    /\ pc = "suspended"
    /\ LET r == RunBatch(args, gen) IN
         /\ gen' = r.g
         /\ pc' = IF r.res = "yield" THEN "suspended" ELSE "done"
         /\ out' = IF r.res = "yield" THEN Append(out, r.val) ELSE out
    /\ UNCHANGED <<tree, op, args, err, trails, ret>>

Next ==
    \/ Call_traverse
    \/ Next_traverse
    \/ Call_traverse_flat_per_path
    \/ Next_traverse_flat_per_path
    \/ Call_traverse_flat
    \/ Call_batch
    \/ Start_batch
    \/ Next_batch

Spec == Init /\ [][Next]_vars

(***************************************************************************)
(* Reference semantics of the path language, by recursion on the path:     *)
(* r stays, c goes to the children of every document, m to the matches;    *)
(* the leaves in depth-first source order, up to the first invalid symbol. *)
(***************************************************************************)
RECURSIVE RefTraverse(_, _, _), RefEach(_, _, _)
RefTraverse(items, path, fn) ==
    IF path = <<>>
    THEN [out |-> <<IF fn = "None" THEN items ELSE SelectSeq(items, FilterFn)>>, err |-> ""]
    ELSE CASE Head(path) = "r" -> RefTraverse(items, Tail(path), fn)
           [] Head(path) = "c" ->
                RefEach([k \in 1..Len(items) |-> tree.chunks[items[k]]], Tail(path), fn)
           [] Head(path) = "m" ->
                RefEach([k \in 1..Len(items) |-> tree.matches[items[k]]], Tail(path), fn)
           [] OTHER -> [out |-> <<>>, err |-> Head(path)]

RefEach(colls, path, fn) ==
    IF colls = <<>> THEN [out |-> <<>>, err |-> ""]
    ELSE LET h == RefTraverse(Head(colls), path, fn) IN
         IF h.err # "" THEN h
         ELSE LET t == RefEach(Tail(colls), path, fn) IN
              [out |-> h.out \o t.out, err |-> t.err]

RECURSIVE RefPaths(_, _)
RefPaths(ps, fn) ==
    IF ps = <<>> THEN [out |-> <<>>, err |-> ""]
    ELSE LET h == RefTraverse(tree.root, Head(ps), fn) IN
         IF h.err # "" THEN h
         ELSE LET t == RefPaths(Tail(ps), fn) IN
              [out |-> h.out \o t.out, err |-> t.err]

PathsOf(tp) == [k \in 1..Len(tp.elems) |-> tp.elems[k].chars]

ItemsOf(colls) == [k \in 1..Len(colls) |-> colls[k].items]

IsPrefix(s, t) == Len(s) <= Len(t) /\ SubSeq(t, 1, Len(s)) = s

RECURSIVE LexLess(_, _)
LexLess(s, t) ==
    IF s = <<>> THEN t # <<>>
    ELSE IF t = <<>> THEN FALSE
    ELSE Head(s) < Head(t) \/ (Head(s) = Head(t) /\ LexLess(Tail(s), Tail(t)))

HasInvalidChar(p) == \E k \in 1..Len(p) : p[k] \notin {"r", "c", "m"}

FirstInvalid(p) == CHOOSE k \in 1..Len(p) :
    p[k] \notin {"r", "c", "m"} /\ \A j \in 1..(k - 1) : p[j] \in {"r", "c", "m"}

\* the path's first invalid symbol is reached: the symbols before it lead to at
\* least one collection
ReachesInvalid(p) ==
    /\ HasInvalidChar(p)
    /\ RefTraverse(tree.root, SubSeq(p, 1, FirstInvalid(p) - 1), "None").out # <<>>

Finished == pc \in {"done", "returned", "raised"}

DefaultMode == op = "batch" /\ args.require_attr = "None"

LegacyMode == op = "batch" /\ args.require_attr # "None"

\* the sequence batch iterates over
BatchSource ==
    IF Truthy(args.tp) THEN TraverseFlat([args EXCEPT !.filter_fn = "None"], 0).val.items
    ELSE tree.root

\* n is the ceiling of m / k
IsCeil(n, m, k) == (n - 1) * k < m /\ m <= n * k

(***************************************************************************)
(* Claims.                                                                 *)
(***************************************************************************)

\* C1: in default mode with traversal_paths given, a fully consumed batch yields
\* ceil(M / batch_size) chunks, M the length of traverse_flat(traversal_paths),
\* none of them empty, whose concatenation is the whole flattened result.
C1_ChunksTheFlattenedResult ==
    (DefaultMode /\ pc = "done" /\ Truthy(args.tp)) =>
        /\ IsCeil(Len(out), Len(BatchSource), args.batch_size)
        /\ \A k \in 1..Len(out) : out[k].items # <<>>
        /\ Concat(ItemsOf(out)) = BatchSource

\* C2: in default mode with shuffle=True the i-th chunk holds the source elements
\* at the positions ix[i*batch_size .. (i+1)*batch_size - 1] of the permuted index.
C2_ChunksFollowThePermutation ==
    (DefaultMode /\ pc = "done" /\ args.shuffle /\ ~Truthy(args.tp)) =>
        Concat(ItemsOf(out)) = [k \in 1..Len(tree.root) |-> tree.root[gen.ix[k] + 1]]

\* a specification _check_traversal_path_type must reject: not a list, empty, or
\* holding an element that is no string
IsMalformed(tp) ==
    \/ tp.kind # "list"
    \/ tp.elems = <<>>
    \/ \E k \in 1..Len(tp.elems) : ~tp.elems[k].isStr

\* the call was made with arguments the validation must reject (batch validates a
\* path specification only when one is given: None and empty ones count as absent)
BadArguments ==
    \/ op \in {"traverse", "traverse_flat_per_path", "traverse_flat"} /\ IsMalformed(args.tp)
    \/ op = "batch" /\ args.batch_size <= 0
    \/ op = "batch" /\ args.tp.kind # "None" /\ args.tp.elems # <<>> /\ IsMalformed(args.tp)

\* C3 (as claimed): validation is eager: a generator that was created and has not
\* started was never created from a malformed path specification or a
\* non-positive batch_size.
C3_ValidationIsEager == pc = "created" => ~BadArguments

\* C3 (amended): validation precedes production: with arguments the validation
\* rejects, traverse_flat raises at the call; the generators traverse,
\* traverse_flat_per_path and batch are created without error, raise the
\* invalid-argument error at the first request and never deliver an element.
C3_ValidationBeforeProduction ==
    BadArguments =>
        /\ out = <<>>
        /\ pc \in {"created", "raised"}
        /\ op = "traverse_flat" => pc = "raised"
        /\ pc = "raised" =>
             err = IF op = "batch" /\ args.batch_size <= 0 THEN ValueError("") ELSE TypeError

C3_Witness ==
    /\ op = "traverse" /\ pc = "raised" /\ args.tp = TpStr(<<"r">>)
    /\ err = TypeError /\ out = <<>>

\* C4 (as claimed): a fully consumed traverse over a well-shaped specification with
\* a character outside {r, c, m} in some path always ends with the invalid-path error.
C4_InvalidCharAlwaysRaises ==
    (op = "traverse" /\ pc \in {"done", "raised"} /\ CheckTraversalPathType(args.tp)
       /\ \E k \in 1..Len(args.tp.elems) : HasInvalidChar(args.tp.elems[k].chars)) =>
        /\ pc = "raised"
        /\ err.type = "ValueError"
        /\ err.char \notin {"r", "c", "m"}

\* C4 (amended): a fully consumed traverse over a well-shaped specification with an
\* invalid character ends with the invalid-path error exactly when some path's
\* first invalid character is reached (the symbols before it lead to at least one
\* collection); the error names that character of the first such path.
C4_InvalidCharRaisesWhenReached ==
    (op = "traverse" /\ pc \in {"done", "raised"} /\ CheckTraversalPathType(args.tp)
       /\ \E k \in 1..Len(args.tp.elems) : HasInvalidChar(args.tp.elems[k].chars)) =>
        LET ps == PathsOf(args.tp)
            hit == {k \in 1..Len(ps) : ReachesInvalid(ps[k])}
        IN  /\ pc = "raised" <=> hit # {}
            /\ pc = "raised" =>
                 LET k == CHOOSE k \in hit : \A j \in hit : k <= j
                 IN  err = ValueError(ps[k][FirstInvalid(ps[k])])

C4_Witness ==
    /\ op = "traverse" /\ pc = "raised" /\ tree = TreeABCD
    /\ args.tp = TpOf(<< <<"c", "c", "x">> >>)
    /\ err = ValueError("x")

\* C5 (as claimed): over [A] (A has children [B, C], B has [D], C none),
\* traverse(['cc']) yields the one collection [D] and traverse(['c', 'cc']) yields
\* exactly [B, C] then [D].
C5_NoCollectionForChildless ==
    (op = "traverse" /\ pc = "done" /\ tree = TreeABCD /\ args.filter_fn = "None") =>
        /\ args.tp = TpOf(<< <<"c", "c">> >>) => ItemsOf(out) = << <<4>> >>
        /\ args.tp = TpOf(<< <<"c">>, <<"c", "c">> >>) => ItemsOf(out) = << <<2, 3>>, <<4>> >>

\* C5 (amended): every document reached by a path's prefix contributes exactly one
\* collection for the last step c or m, an empty one when it has no children (or
\* matches): traverse(['cc']) yields [D] then [], and traverse(['c', 'cc']) yields
\* [B, C], [D], [].
C5_EmptyCollectionForChildless ==
    (op = "traverse" /\ pc = "done" /\ args.filter_fn = "None") =>
        /\ (tree = TreeABCD /\ args.tp = TpOf(<< <<"c", "c">> >>)) =>
              ItemsOf(out) = << <<4>>, <<>> >>
        /\ (tree = TreeABCD /\ args.tp = TpOf(<< <<"c">>, <<"c", "c">> >>)) =>
              ItemsOf(out) = << <<2, 3>>, <<4>>, <<>> >>
        /\ \A p \in PathPool :
              (args.tp = TpOf(<<p>>) /\ p # <<>> /\ ~HasInvalidChar(p) /\ Last(p) # "r") =>
                 Len(out) = Len(Concat(RefTraverse(tree.root, Front(p), "None").out))

C5_Witness ==
    /\ op = "traverse" /\ pc = "done" /\ tree = TreeABCD /\ args.filter_fn = "None"
    /\ args.tp = TpOf(<< <<"c">>, <<"c", "c">> >>)
    /\ Len(out) = 3 /\ out[3].items = <<>>

\* C6: in default mode without traversal_paths and with shuffle=False a fully
\* consumed batch yields ceil(N / batch_size) chunks, every one but the last of
\* batch_size elements, the last of 1..batch_size, their concatenation the source.
C6_DefaultBatchPartitionsInOrder ==
    (DefaultMode /\ pc = "done" /\ ~Truthy(args.tp) /\ ~args.shuffle) =>
        /\ IsCeil(Len(out), Len(tree.root), args.batch_size)
        /\ \A k \in 1..(Len(out) - 1) : Len(out[k].items) = args.batch_size
        /\ out # <<>> => Len(Last(out).items) \in 1..args.batch_size
        /\ Concat(ItemsOf(out)) = tree.root

C6_Witness ==
    /\ DefaultMode /\ pc = "done" /\ ~Truthy(args.tp) /\ ~args.shuffle
    /\ Len(out) >= 2
    /\ Len(Last(out).items) < args.batch_size

\* C7: traverse_flat returns the receiver itself exactly when the specification is
\* the single path 'r' and there is no filter; otherwise it returns a new
\* collection, not the receiver, holding the flattened traversal.
C7_RootShortcutOnly ==
    (op = "traverse_flat" /\ pc = "returned") =>
        /\ ret.ref = SelfRef <=> (args.tp = TpOf(<< <<"r">> >>) /\ args.filter_fn = "None")
        /\ ret.ref # SelfRef =>
             /\ ret.ref[1] = "new"
             /\ ret.items = Concat(RefPaths(PathsOf(args.tp), args.filter_fn).out)

C7_Witness ==
    /\ op = "traverse_flat" /\ pc = "returned"
    /\ args.tp = TpOf(<< <<"r", "r">> >>) /\ args.filter_fn = "None"
    /\ ret.items = tree.root /\ tree.root # <<>>
    /\ ret.ref # SelfRef

\* C8: traverse emits the leaves in depth-first source order: what the consumer
\* has received is always a prefix of the reference recursive descent's result
\* (all of it once the generator has ended), and the positions of the yields
\* (path, then document index per level) strictly increase lexicographically.
C8_DepthFirstSourceOrder ==
    (op = "traverse" /\ pc \in {"suspended", "done", "raised"}
       /\ CheckTraversalPathType(args.tp)) =>
        LET ref == RefPaths(PathsOf(args.tp), args.filter_fn) IN
        /\ IsPrefix(ItemsOf(out), ref.out)
        /\ pc = "done" => (ItemsOf(out) = ref.out /\ ref.err = "")
        /\ pc = "raised" => (ItemsOf(out) = ref.out /\ ref.err # "" /\ err = ValueError(ref.err))
        /\ Len(trails) = Len(out)
        /\ \A k \in 1..(Len(trails) - 1) : LexLess(trails[k], trails[k + 1])

C8_Witness ==
    /\ op = "traverse" /\ pc = "done" /\ tree = TreeCM
    /\ args.tp = TpOf(<< <<"c">>, <<"c", "c">> >>)
    /\ Len(out) = 3

\* C9: in legacy mode every emitted chunk is non-empty, every chunk but possibly
\* the last has batch_size elements, a chunk is emitted as soon as the running
\* batch reaches batch_size, the chunks concatenated are the passing source
\* elements in order, and the generator ends with the source exhausted and no
\* remainder.
C9_LegacyBatch ==
    (LegacyMode /\ pc \in {"suspended", "done"}) =>
        LET src == BatchSource
            passing(n) == SelectSeq(SubSeq(src, 1, n), LAMBDA d : Passes(d, args.require_attr))
        IN  /\ \A k \in 1..Len(out) : out[k].items # <<>>
            /\ \A k \in 1..(Len(out) - 1) : Len(out[k].items) = args.batch_size
            /\ out # <<>> => Len(Last(out).items) <= args.batch_size
            /\ gen.batch = <<>>
            /\ Concat(ItemsOf(out)) = passing(gen.pos)
            /\ (pc = "suspended" /\ Len(Last(out).items) = args.batch_size) =>
                 Last(Last(out).items) = src[gen.pos]
            /\ (pc = "suspended" /\ Len(Last(out).items) < args.batch_size) =>
                 gen.pos = Len(src)
            /\ pc = "done" => gen.pos = Len(src)

C9_Witness ==
    /\ LegacyMode /\ pc = "done" /\ args.shuffle
    /\ Len(out) >= 2
    /\ Len(Last(out).items) < args.batch_size
    /\ Len(Concat(ItemsOf(out))) < Len(tree.root)

\* C10: in legacy mode an element passes for require_attr 'embedding' or 'blob'
\* iff the attribute is not None (a present but empty value passes), and for any
\* other name iff the attribute value is truthy.
C10_PassTestByAttributeName ==
    (LegacyMode /\ pc = "done" /\ ~Truthy(args.tp)) =>
        \A d \in Range(tree.root) :
            d \in Range(Concat(ItemsOf(out))) <=>
                IF args.require_attr \in {"embedding", "blob"}
                THEN AttrValue(d) \in {"empty", "value"}
                ELSE AttrValue(d) = "value"

C10_Witness ==
    /\ LegacyMode /\ pc = "done" /\ ~Truthy(args.tp)
    /\ args.require_attr = "embedding"
    /\ \E d \in Range(Concat(ItemsOf(out))) : AttrValue(d) = "empty"

\* C11: with a filter function every collection traverse yields is the reached
\* leaf collection restricted to the elements the filter accepts, in order; the
\* filter plays no part on the way down, so as many collections are yielded as
\* without a filter.
C11_FilterAtLeavesOnly ==
    (op = "traverse" /\ args.filter_fn # "None" /\ pc \in {"suspended", "done", "raised"}
       /\ ~IsMalformed(args.tp)) =>
        LET leaves == RefPaths(PathsOf(args.tp), "None").out IN
        /\ Len(out) <= Len(leaves)
        /\ \A k \in 1..Len(out) : out[k].items = SelectSeq(leaves[k], FilterFn)
        /\ pc \in {"done", "raised"} => Len(out) = Len(leaves)

C11_Witness ==
    /\ op = "traverse" /\ args.filter_fn = "odd" /\ pc = "done"
    /\ tree = TreeABCD /\ args.tp = TpOf(<< <<"c">>, <<"c", "c">> >>)
    /\ ItemsOf(out) = << <<3>>, <<>>, <<>> >>

\* C12: traverse_flat_per_path yields exactly one flattened collection per path, in
\* path order: for k valid paths k collections, the i-th the in-order concatenation
\* of the leaf collections reached by path i alone (empty when it reaches none).
C12_OneFlatCollectionPerPath ==
    (op = "traverse_flat_per_path" /\ pc \in {"suspended", "done"}
       /\ ~IsMalformed(args.tp)
       /\ \A k \in 1..Len(args.tp.elems) : ~HasInvalidChar(args.tp.elems[k].chars)) =>
        LET ps == PathsOf(args.tp) IN
        /\ Len(out) <= Len(ps)
        /\ pc = "done" => Len(out) = Len(ps)
        /\ \A k \in 1..Len(out) :
             out[k].items = Concat(RefTraverse(tree.root, ps[k], args.filter_fn).out)

C12_Witness ==
    /\ op = "traverse_flat_per_path" /\ pc = "done" /\ tree = TreeCM
    /\ args.tp = TpOf(<< <<"c">>, <<"m">> >>) /\ args.filter_fn = "None"
    /\ Len(out) = 2 /\ Len(out[1].items) = 2 /\ Len(out[2].items) = 3

\* the validation has run and raised the invalid-argument error of the validator
ValidatorRejected ==
    /\ op \in {"traverse", "traverse_flat_per_path", "traverse_flat"}
    /\ pc = "raised"
    /\ err = TypeError

ValidatorRan ==
    /\ op \in {"traverse", "traverse_flat_per_path", "traverse_flat"}
    /\ pc \notin {"idle", "created"}

\* C13 (as claimed): the validator accepts a specification iff it is a non-empty
\* list (not a bare string) whose elements are all non-empty strings.
C13_AcceptsNonEmptyStringsOnly ==
    ValidatorRan =>
        (~ValidatorRejected <=>
            /\ args.tp.kind = "list"
            /\ args.tp.elems # <<>>
            /\ \A k \in 1..Len(args.tp.elems) :
                 args.tp.elems[k].isStr /\ args.tp.elems[k].chars # <<>>)

\* C13 (amended): the validator accepts a specification iff it is a non-empty list
\* (not a bare string) whose elements are all strings, empty strings included.
C13_AcceptsStringsOnly ==
    ValidatorRan =>
        (~ValidatorRejected <=>
            /\ args.tp.kind = "list"
            /\ args.tp.elems # <<>>
            /\ \A k \in 1..Len(args.tp.elems) : args.tp.elems[k].isStr)

C13_Witness ==
    /\ op = "traverse" /\ pc = "done" /\ args.tp = TpOf(<< <<>> >>)
    /\ args.filter_fn = "None" /\ ItemsOf(out) = <<tree.root>>

\* C14: with a batch_size that is not positive, batch yields no chunk and fails
\* with the invalid-argument error of the batch size, whatever traversal_paths,
\* require_attr and shuffle are: no path validation and no traversal comes first.
C14_BatchSizeCheckedFirst ==
    (op = "batch" /\ args.batch_size <= 0) =>
        /\ out = <<>>
        /\ pc \in {"created", "raised"}
        /\ pc = "raised" => err = ValueError("")

C14_Witness ==
    /\ op = "batch" /\ args.batch_size = 0 /\ pc = "raised"
    /\ args.tp = TpStr(<<"r">>) /\ args.require_attr = "embedding" /\ args.shuffle
    /\ err = ValueError("")

IsNew(c) == c.ref[1] = "new"

AllNewAndDistinct ==
    /\ \A k \in 1..Len(out) : IsNew(out[k])
    /\ \A j, k \in 1..Len(out) : out[j].ref = out[k].ref => j = k

\* C15 (as claimed): no collection yielded by traverse, traverse_flat_per_path or
\* batch is the source collection or the children/matches collection of a document.
C15_EveryYieldIsFresh ==
    op \in {"traverse", "traverse_flat_per_path", "batch"} =>
        \A k \in 1..Len(out) : out[k].ref[1] \notin {"self", "chunks", "matches"}

\* C15 (amended): the collections yielded by traverse with a filter, by
\* traverse_flat_per_path and by batch are new objects, each a different one;
\* traverse without a filter yields the reached collections themselves: the
\* source for a path of r's, a document's children or matches otherwise.
C15_FreshExceptUnfilteredTraverse ==
    /\ (op \in {"traverse_flat_per_path", "batch"}
          \/ (op = "traverse" /\ args.filter_fn # "None")) => AllNewAndDistinct
    /\ (op = "traverse" /\ args.filter_fn = "None") =>
          \A k \in 1..Len(out) :
              LET p == PathsOf(args.tp)[trails[k][1]] IN
              IF \A j \in 1..Len(p) : p[j] = "r" THEN out[k].ref = SelfRef
              ELSE out[k].ref[1] \in {"chunks", "matches"}

C15_Witness ==
    /\ op = "traverse" /\ args.filter_fn = "odd" /\ pc = "done"
    /\ args.tp = TpOf(<< <<"r">>, <<"c">> >>) /\ tree = TreeABCD
    /\ Len(out) = 2 /\ AllNewAndDistinct

\* C16: identity law: traverse(['r']) without a filter over any collection, the
\* empty one included, ends normally having yielded exactly one collection, whose
\* contents are the collection's, in the same order.
C16_IdentityLaw ==
    (op = "traverse" /\ args.tp = TpOf(<< <<"r">> >>) /\ args.filter_fn = "None"
       /\ pc \in {"done", "raised"}) =>
        /\ pc = "done"
        /\ Len(out) = 1
        /\ out[1].items = tree.root

C16_Witness ==
    /\ op = "traverse" /\ args.tp = TpOf(<< <<"r">> >>) /\ args.filter_fn = "None"
    /\ pc = "done" /\ tree = TreeCyclic
    /\ ItemsOf(out) = << <<1, 2>> >>

\* d occurs exactly once in the chunks
InExactlyOneChunk(d) ==
    Cardinality({<<k, j>> \in (1..Len(out)) \X (1..MaxBatchSize + 1) :
                    j <= Len(out[k].items) /\ out[k].items[j] = d}) = 1

\* C17: in default mode with shuffle=True and no traversal_paths, whatever order
\* the random source leaves the index in, the chunks of a fully consumed batch
\* partition the source: every element in exactly one chunk, ceil(N / batch_size)
\* chunks, only the last possibly shorter than batch_size.
C17_ShuffledChunksPartition ==
    (DefaultMode /\ pc = "done" /\ args.shuffle /\ ~Truthy(args.tp)) =>
        /\ IsCeil(Len(out), Len(tree.root), args.batch_size)
        /\ \A k \in 1..(Len(out) - 1) : Len(out[k].items) = args.batch_size
        /\ \A k \in 1..Len(out) : Len(out[k].items) \in 1..args.batch_size
        /\ \A d \in Range(tree.root) : InExactlyOneChunk(d)
        /\ \A k \in 1..Len(out) : Range(out[k].items) \subseteq Range(tree.root)

C17_Witness ==
    /\ DefaultMode /\ pc = "done" /\ args.shuffle /\ ~Truthy(args.tp)
    /\ gen.ix # Arange(Len(tree.root))
    /\ Len(out) >= 2 /\ Len(Last(out).items) < args.batch_size

\* the paths whose first invalid character traversal reaches
HitPaths == {k \in 1..Len(args.tp.elems) : ReachesInvalid(args.tp.elems[k].chars)}

FirstHit == CHOOSE k \in HitPaths : \A j \in HitPaths : k <= j

\* what the paths before path k deliver: for traverse their leaves, for
\* traverse_flat_per_path one flattened collection each
DeliveredBefore(k) ==
    IF op = "traverse"
    THEN RefPaths(SubSeq(PathsOf(args.tp), 1, k - 1), args.filter_fn).out
    ELSE [j \in 1..(k - 1) |->
            Concat(RefTraverse(tree.root, PathsOf(args.tp)[j], args.filter_fn).out)]

\* C18: an invalid path character is detected only when traversal reaches it: in
\* traverse and traverse_flat_per_path the error is raised after everything the
\* earlier paths produce was delivered, it ends the generator, and while the
\* consumer has not demanded the offending path no error is raised.
C18_InvalidCharDetectedLazily ==
    (op \in {"traverse", "traverse_flat_per_path"} /\ ~IsMalformed(args.tp)) =>
        /\ pc = "raised" =>
             /\ HitPaths # {}
             /\ err = ValueError(LET p == PathsOf(args.tp)[FirstHit] IN p[FirstInvalid(p)])
             /\ ItemsOf(out) = DeliveredBefore(FirstHit)
             /\ gen.stack = <<>> /\ gen.pi = Len(args.tp.elems)
        /\ pc \in {"created", "suspended"} =>
             /\ err = NoErr
             /\ HitPaths # {} => (gen.pi < FirstHit /\ IsPrefix(ItemsOf(out), DeliveredBefore(FirstHit)))
        /\ pc = "done" => HitPaths = {}

C18_Witness ==
    /\ op = "traverse_flat_per_path" /\ pc = "raised" /\ tree = TreeABCD
    /\ args.tp = TpOf(<< <<"c">>, <<"c", "x">> >>) /\ args.filter_fn = "None"
    /\ ItemsOf(out) = << <<2, 3>> >>
    /\ err = ValueError("x")

\* the requests a traverse generator can still serve: none once it has ended,
\* else one per leaf not yet delivered and the one that ends it
Remaining ==
    IF pc \in {"done", "raised"} THEN 0
    ELSE 1 + Len(RefPaths(PathsOf(args.tp), args.filter_fn).out) - Len(out)

\* C19: traversal terminates: every request of the consumer strictly decreases
\* the natural number Remaining, so a consumer that keeps requesting elements
\* from traverse reaches exhaustion or an error, also over cyclic matches and
\* shared documents; no branch is descended deeper than the path has symbols.
C19_TraversalTerminates ==
    /\ [][(op = "traverse" /\ pc \in {"created", "suspended"}) => Remaining' < Remaining]_vars
    /\ [](op = "traverse" =>
            /\ Remaining >= 0
            /\ \A k \in 1..Len(gen.stack) :
                 Len(gen.stack[k].path) = Len(gen.stack[1].path) - (k - 1))

C19_Witness ==
    /\ op = "traverse" /\ pc = "done" /\ tree = TreeCyclic
    /\ args.tp = TpOf(<< <<"m", "m">> >>) /\ args.filter_fn = "None"
    /\ ItemsOf(out) = << <<1>>, <<2>> >>

\* C20: the three traversal operations agree on content: the elements of
\* traverse_flat(paths) are the concatenation, in path order, of the collections
\* of traverse_flat_per_path(paths) and the concatenation of the collections of
\* traverse(paths), duplicates retained, also in the ['r'] shortcut case; one
\* raises exactly when the others do.
C20_TraversalsAgree ==
    (~IsMalformed(args.tp) /\ pc \in {"done", "returned", "raised"}) =>
        LET flat == TraverseFlat(args, 0)
            ref == RefPaths(PathsOf(args.tp), args.filter_fn)
        IN  /\ op \in {"traverse", "traverse_flat_per_path"} =>
                 /\ pc = "done" <=> flat.res = "return"
                 /\ pc = "done" => Concat(ItemsOf(out)) = flat.val.items
            /\ op = "traverse_flat" =>
                 /\ pc = "returned" <=> ref.err = ""
                 /\ pc = "returned" => ret.items = Concat(ref.out)

C20_Witness ==
    /\ op = "traverse_flat" /\ pc = "returned" /\ tree = TreeCyclic
    /\ args.tp = TpOf(<< <<"r">>, <<"r">> >>) /\ args.filter_fn = "None"
    /\ ret.items = <<1, 2, 1, 2>>

====
